---- MODULE Spec2Model ----
(***************************************************************************)
(* A model of the loro text CRDT core.                                     *)
(*                                                                         *)
(*  - Hierarchy & observer dispatch: crates/loro-internal/src/hierarchy.rs *)
(*  - Replica drivers and oracles:   crates/loro-core/src/fuzz.rs          *)
(*  - String tree callbacks: crates/rle/examples/string_tree_bench/        *)
(*    string_tree.rs                                                       *)
(*  - Operation log / sequence CRDT: described by spec.md sections 3-4     *)
(*    (their implementation is not part of the sources at hand).           *)
(***************************************************************************)
EXTENDS Integers, Sequences, FiniteSets, TLC

(***************************************************************************)
(* Bounds of the model.                                                    *)
(***************************************************************************)
MaxSubs == 2        \* subscriptions handed out in a dispatch run
MaxEvents == 3      \* raw events passed to notify in a dispatch run
MaxStructOps == 4   \* add_child / remove_child calls in a structure run
MaxStructSubs == 1  \* subscriptions handed out in a structure run
MaxPassSubs == 3    \* subscriptions handed out in a single-pass run
MaxPassEvents == 1  \* raw events passed to notify in a single-pass run
MaxEdgeOps == 3     \* add_child / remove_child calls in a free-form run
MaxEdgeSubs == 2    \* subscriptions handed out in a free-form run
MaxEdgeEvents == 1  \* raw events passed to notify in a free-form run
MaxRunLen == 2      \* length of a run handed to a position lookup
MaxTreeOps == 5     \* insert / delete_range calls in a tree run
BigRun == 63        \* length of the long string a tree run inserts

\* StringTreeTrait::MAX_CHILDREN_NUM
MAX_CHILDREN_NUM == 4

\* is_mergable: self.len() + other.len() < 64
MergableBelow == 64

None == "none"

(***************************************************************************)
(* Generic helpers.                                                        *)
(***************************************************************************)
Range(s) == {s[i] : i \in 1..Len(s)}

Reverse(s) == [i \in 1..Len(s) |-> s[Len(s) + 1 - i]]

\* every iteration order a hash set may produce
Orders(S) == {s \in [1..Cardinality(S) -> S] : \A i, j \in 1..Cardinality(S) : s[i] = s[j] => i = j}

(***************************************************************************)
(* ContainerID: one Root id and two Normal ids.                            *)
(***************************************************************************)
ContainerIDs == {"r", "a", "b"}

IsRoot(id) == id = "r"

\* the (parent, child) registrations a replica makes while nesting containers
TreeEdges == {<<"r", "a">>, <<"a", "b">>}

\* the (parent, child) pairs a caller of the public add_child / remove_child
\* may pass: a Normal container under any other container
Edges == {e \in ContainerIDs \X ContainerIDs : e[1] # e[2] /\ ~IsRoot(e[2])}

VARIABLES
    \* struct Hierarchy
    observers,            \* key set of FxHashMap<SubscriptionID, Observer>
    nodes,                \* FxHashMap<ContainerID, Node>
    root_observers,
    latest_deleted,
    event_counter,
    deleted_observers,    \* Vec<SubscriptionID>
    pending_dispatches,   \* Option<(Event, Vec<EventDispatch>)>
    calling,
    \* the outermost notify_without_lock / reset frame
    pc,                   \* "idle" | "observer" | "panic" | "hang"
    taken,                \* the observer table moved out of the hierarchy
    dispatches,           \* dispatches call_observers has still to run
    event,                \* the event call_observers passes to observers
    running,              \* subscription whose callback is executing
    mutex,                \* the Mutex<Hierarchy> is held
    debug_assertions,     \* build flag: debug_assert! compiled in
    \* history
    \* (calls, evlog, unsubd describe the latest batch: they are cleared by
    \* the replica's next call into the hierarchy)
    calls,                \* observer invocations, in order
    evlog,                \* one record per raw event passed to notify
    unsubd,               \* ids unsubscribed while calling, this batch
    answer,               \* the latest path query and what it returned
    effect,               \* the latest remove_child / take_deleted and what it met
    nEvents,
    nStruct,
    cap                   \* the budgets of this run: [subs, events, struct]

hvars == <<observers, nodes, root_observers, latest_deleted, event_counter,
           deleted_observers, pending_dispatches, calling, pc, taken,
           dispatches, event, running, mutex, debug_assertions, calls, evlog,
           unsubd, answer, effect, nEvents, nStruct, cap>>

VARIABLES
    replicas,             \* fuzz.rs `sites`: site id -> replica (LoroCore)
    ground_truth,         \* fuzz.rs test_single_client: the oracle String
    last,                 \* history: the latest import and what it met
    edit,                 \* history: the latest direct TextHandle call
    nOps                  \* history: changes created by local edits

cvars == <<replicas, ground_truth, last, edit, nOps>>

VARIABLES
    tree,                 \* the RleTree<CustomString, StringTreeTrait> of a tree run
    lookup,               \* history: the latest find_pos call and what it returned
    nTree                 \* history: mutations of the tree

tvars == <<tree, lookup, nTree>>

vars == <<hvars, cvars, tvars>>

(***************************************************************************)
(* struct Node                                                             *)
(***************************************************************************)
DefaultNode == [parent |-> None, children |-> {}, observers |-> {}, deep_observers |-> {}]

\* nodes.entry(id).or_default()
EntryOrDefault(ns, id) == IF id \in DOMAIN ns THEN ns ELSE [x \in DOMAIN ns \cup {id} |-> IF x = id THEN DefaultNode ELSE ns[x]]

Fuel == Cardinality(ContainerIDs) + 1

\* the event slot of a frame that dispatches nothing
NoEvent == [diff |-> 0, target |-> None, absolute_path |-> <<>>, relative_path |-> <<>>, current_target |-> None]


(***************************************************************************)
(* Path resolution.                                                        *)
(***************************************************************************)
RECURSIVE PathUp(_, _, _)
\* the loop of get_path with target = None: the indices pushed from the
\* descendant upward.  status: "some" | "none" | "hang"
PathUp(ns, node_id, fuel) ==
    IF node_id \notin DOMAIN ns
    THEN IF IsRoot(node_id) THEN [status |-> "some", path |-> <<node_id>>]
         ELSE [status |-> "none", path |-> <<>>]
    ELSE LET parent == ns[node_id].parent IN
         IF parent = None
         THEN IF IsRoot(node_id) THEN [status |-> "some", path |-> <<node_id>>]
              ELSE [status |-> "none", path |-> <<>>]
         ELSE IF fuel = 0 THEN [status |-> "hang", path |-> <<>>]
         ELSE LET up == PathUp(ns, parent, fuel - 1) IN
              IF up.status = "some"
              THEN [status |-> "some", path |-> <<node_id>> \o up.path]
              ELSE up

GetPath(ns, descendant) ==
    IF IsRoot(descendant) THEN [status |-> "some", path |-> <<descendant>>]
    ELSE LET up == PathUp(ns, descendant, Fuel) IN [up EXCEPT !.path = Reverse(up.path)]

RECURSIVE PathLenUp(_, _, _, _)
\* the loop of get_path_len: where it stops and what it counted
PathLenUp(ns, current, len, fuel) ==
    IF current \notin DOMAIN ns THEN [status |-> "ok", current |-> current, len |-> len]
    ELSE IF ns[current].parent = None THEN [status |-> "ok", current |-> current, len |-> len + 1]
    ELSE IF fuel = 0 THEN [status |-> "hang", current |-> current, len |-> len]
    ELSE PathLenUp(ns, ns[current].parent, len + 1, fuel - 1)

\* a get_path_len that answers without looking at where the walk stopped
GetPathLenUnchecked(ns, id) ==
    LET up == PathLenUp(ns, id, 0, Fuel) IN
    IF up.status = "hang" THEN [status |-> "hang", len |-> 0]
    ELSE [status |-> "some", len |-> up.len]

GetPathLen(ns, id) ==
    LET up == PathLenUp(ns, id, 0, Fuel) IN
    IF up.status = "hang" THEN [status |-> "hang", len |-> 0]
    ELSE IF IsRoot(up.current) THEN [status |-> "some", len |-> up.len]
    ELSE [status |-> "none", len |-> 0]

\* get_abs_path, as the caller that fills RawEvent.abs_path uses it; a
\* container without a path gets the default (empty) path
GetAbsPath(ns, descendant) ==
    LET p == GetPath(ns, descendant) IN
    IF p.status = "some" /\ p.path # <<>> THEN p ELSE [p EXCEPT !.path = <<>>]

(***************************************************************************)
(* add_child / remove_child / take_deleted                                 *)
(***************************************************************************)
AddChildNodes(ns, parent, child) ==
    LET n1 == EntryOrDefault(ns, parent)
        n2 == [n1 EXCEPT ![parent].children = @ \cup {child}]
        n3 == EntryOrDefault(n2, child)
    IN [n3 EXCEPT ![child].parent = parent]

\* a traversal that pops the child and pushes nothing
ReachChildOnly(ns, S, n) == S

RECURSIVE Reach(_, _, _)
\* ids the stack of remove_child visits, starting from the set S
Reach(ns, S, n) ==
    IF n = 0 THEN S
    ELSE Reach(ns, S \cup UNION {ns[x].children : x \in S \cap DOMAIN ns}, n - 1)

\* the traversal pushes children without a visited check: it never ends when
\* a registered node below `child` reaches itself through children links
TraversalLoops(ns, child) ==
    \E x \in Reach(ns, {child}, Fuel) \cap DOMAIN ns : x \in Reach(ns, ns[x].children, Fuel)

RemoveChildResult(ns, deleted, parent, child) ==
    IF parent \notin DOMAIN ns THEN [status |-> "ok", nodes |-> ns, latest_deleted |-> deleted]
    ELSE LET n1 == [ns EXCEPT ![parent].children = @ \ {child}] IN
         IF TraversalLoops(n1, child) THEN [status |-> "hang", nodes |-> n1, latest_deleted |-> deleted]
         ELSE LET visited_descendants == Reach(n1, {child}, Fuel) IN
              [status |-> "ok",
               nodes |-> [x \in DOMAIN n1 \ visited_descendants |-> n1[x]],
               latest_deleted |-> deleted \cup visited_descendants]

(***************************************************************************)
(* notify_without_lock: building the dispatch list                         *)
(***************************************************************************)
\* mutant: the slice is not reversed back
RelativePathNotReversed(path_to_root, count) == SubSeq(path_to_root, 1, count)

\* path_to_root[..count], reversed
RelativePath(path_to_root, count) == Reverse(SubSeq(path_to_root, 1, count))

RECURSIVE DeepWalk(_, _, _, _, _, _)
\* the `while let Some(id) = current_target_id` loop.  groups: one
\* [ids, rewrite] per ancestor with deep observers, target first
DeepWalk(ns, id, count, path_to_root, dbg, fuel) ==
    IF id = None \/ id \notin DOMAIN ns THEN [status |-> "ok", groups |-> <<>>]
    ELSE IF fuel = 0 THEN [status |-> "hang", groups |-> <<>>]
    ELSE LET node == ns[id] IN
         IF node.deep_observers # {} /\ count > Len(path_to_root)
         THEN [status |-> "panic", groups |-> <<>>]      \* slice index out of range
         ELSE IF dbg /\ node.parent = None /\ ~IsRoot(id)
         THEN [status |-> "panic", groups |-> <<>>]      \* debug_assert!(id.is_root())
         ELSE LET here == IF node.deep_observers # {}
                          THEN <<[ids |-> node.deep_observers,
                                  rewrite |-> <<[relative_path |-> RelativePath(path_to_root, count),
                                                 target |-> id]>>]>>
                          ELSE <<>>
                  rest == DeepWalk(ns, node.parent, count + 1, path_to_root, dbg, fuel - 1)
              IN [rest EXCEPT !.groups = here \o @]

ShallowGroup(ns, target_id) ==
    IF ns[target_id].observers # {} THEN <<[ids |-> ns[target_id].observers, rewrite |-> <<>>]>> ELSE <<>>

RootGroup(roots, absolute_path) ==
    IF roots # {}
    THEN <<[ids |-> roots, rewrite |-> <<[relative_path |-> absolute_path, target |-> None]>>]>>
    ELSE <<>>

RECURSIVE Orderings(_)
\* every Vec<EventDispatch> the groups can yield: sub_ids are pushed in the
\* iteration order of a hash set
Orderings(groups) ==
    IF groups = <<>> THEN {<<>>}
    ELSE {<<[sub_ids |-> p, rewrite |-> Head(groups).rewrite]>> \o rest :
            p \in Orders(Head(groups).ids), rest \in Orderings(Tail(groups))}

\* a dispatch list that serves the root observers first
BuildDispatchesRootFirst(ns, roots, target_id, absolute_path, dbg) ==
    LET walk == DeepWalk(ns, target_id, 0, Reverse(absolute_path), dbg, Fuel) IN
    [status |-> walk.status,
     lists |-> Orderings(RootGroup(roots, absolute_path) \o ShallowGroup(ns, target_id) \o walk.groups)]

\* ns already holds the entry of target_id
BuildDispatches(ns, roots, target_id, absolute_path, dbg) ==
    LET walk == DeepWalk(ns, target_id, 0, Reverse(absolute_path), dbg, Fuel) IN
    [status |-> walk.status,
     lists |-> Orderings(ShallowGroup(ns, target_id) \o walk.groups \o RootGroup(roots, absolute_path))]

(***************************************************************************)
(* should_notify                                                           *)
(***************************************************************************)
RECURSIVE ShouldWalk(_, _, _)
\* the `while let Some(inner_node_id) = node_id` loop: "true" and "false"
\* are its early returns, "end" is falling out of the loop
ShouldWalk(ns, node_id, fuel) ==
    IF node_id = None THEN "end"
    ELSE IF node_id \notin DOMAIN ns THEN (IF IsRoot(node_id) THEN "end" ELSE "false")
    ELSE IF ns[node_id].deep_observers # {} THEN "true"
    ELSE IF fuel = 0 THEN "hang"
    ELSE ShouldWalk(ns, ns[node_id].parent, fuel - 1)

\* "true" | "false" | "hang"
ShouldNotify(ns, roots, container_id) ==
    IF roots # {} THEN "true"
    ELSE IF ShouldWalk(ns, container_id, Fuel) # "end" THEN ShouldWalk(ns, container_id, Fuel)
    ELSE IF container_id \in DOMAIN ns /\ ns[container_id].observers # {} THEN "true"
    ELSE "false"

(***************************************************************************)
(* call_observers and reset, as a frame f of the outermost notify:         *)
(* f.observers, f.deleted_observers, f.pending_dispatches, f.calling are   *)
(* the hierarchy's fields; f.taken, f.dispatches, f.event are locals.      *)
(***************************************************************************)
ApplyRewrite(ev, dispatch) ==
    IF dispatch.rewrite = <<>> THEN ev
    ELSE [ev EXCEPT !.relative_path = dispatch.rewrite[1].relative_path,
                    !.current_target = dispatch.rewrite[1].target]

MarkDone(log, ev) == IF ev.diff = 0 THEN log ELSE [log EXCEPT ![ev.diff].state = "done"]

\* a guard that is kept over the callbacks
DropGuardForgotten(held) == held

\* the MutexGuard goes out of scope (notify_without_lock) or is dropped
\* (reset) before call_observers: the mutex is free again
DropGuard(held) == FALSE

\* hierarchy.try_lock().unwrap(): Err when the mutex is held
TryLockFails(held) == held

RECURSIVE CallObservers(_), Reset(_)
CallObservers(f) ==
    IF f.dispatches = <<>> THEN Reset([f EXCEPT !.evlog = MarkDone(@, f.event)])
    ELSE LET dispatch == Head(f.dispatches)
             ev == ApplyRewrite(f.event, dispatch)
             sub_id == Head(dispatch.sub_ids)
             rest == IF Len(dispatch.sub_ids) = 1 THEN Tail(f.dispatches)
                     ELSE <<[dispatch EXCEPT !.sub_ids = Tail(@)]>> \o Tail(f.dispatches)
         IN IF sub_id \notin f.taken
            THEN [f EXCEPT !.pc = "panic", !.event = ev]          \* observers.get_mut(sub_id).unwrap()
            ELSE [f EXCEPT !.pc = "observer", !.event = ev, !.running = <<sub_id>>,
                           !.dispatches = rest,
                           !.calls = Append(@, [sub |-> sub_id, diff |-> ev.diff,
                                                relative_path |-> ev.relative_path,
                                                current_target |-> ev.current_target,
                                                unsubscribed |-> sub_id \in f.unsubd])]

Reset(f) ==
    LET table == f.observers \cup (f.taken \ Range(f.deleted_observers)) IN
    IF TryLockFails(f.mutex) THEN [f EXCEPT !.pc = "panic"]
    ELSE IF f.pending_dispatches # <<>>
    THEN CallObservers([f EXCEPT !.observers = {}, !.taken = table, !.deleted_observers = <<>>,
                                 !.pending_dispatches = <<>>, !.mutex = DropGuard(TRUE),
                                 !.event = f.pending_dispatches[1].event,
                                 !.dispatches = f.pending_dispatches[1].dispatches,
                                 !.evlog = [@ EXCEPT ![f.pending_dispatches[1].event.diff].state = "running"]])
    ELSE [f EXCEPT !.observers = table, !.taken = {}, !.deleted_observers = <<>>,
                   !.calling = FALSE, !.event = NoEvent, !.dispatches = <<>>, !.pc = "idle"]

Frame == [observers |-> observers, deleted_observers |-> deleted_observers,
          pending_dispatches |-> pending_dispatches, calling |-> calling,
          taken |-> taken, dispatches |-> dispatches, event |-> event,
          pc |-> pc, running |-> running, mutex |-> mutex, calls |-> calls, evlog |-> evlog, unsubd |-> unsubd]

SetFrame(f) ==
    /\ observers' = f.observers
    /\ deleted_observers' = f.deleted_observers
    /\ pending_dispatches' = f.pending_dispatches
    /\ calling' = f.calling
    /\ taken' = f.taken
    /\ dispatches' = f.dispatches
    /\ event' = f.event
    /\ pc' = f.pc
    /\ running' = f.running
    /\ mutex' = f.mutex
    /\ calls' = f.calls
    /\ evlog' = f.evlog
    /\ unsubd' = f.unsubd


\* no string tree is in play
NoTree ==
    /\ tree = <<>>
    /\ lookup = <<>>
    /\ nTree = 0

\* a run that exercises the hierarchy alone
NoReplicas ==
    /\ NoTree
    /\ replicas = <<>>
    /\ ground_truth = <<>>
    /\ last = <<>>
    /\ edit = <<>>
    /\ nOps = 0

\* Hierarchy::new()
HNew ==
    /\ observers = {}
    /\ root_observers = {}
    /\ latest_deleted = {}
    /\ event_counter = 0
    /\ deleted_observers = <<>>
    /\ pending_dispatches = <<>>
    /\ calling = FALSE
    /\ pc = "idle"
    /\ taken = {}
    /\ dispatches = <<>>
    /\ event = NoEvent
    /\ running = <<>>
    /\ mutex = FALSE
    /\ debug_assertions \in BOOLEAN
    /\ calls = <<>>
    /\ evlog = <<>>
    /\ unsubd = {}
    /\ answer = <<>>
    /\ effect = <<>>
    /\ nEvents = 0
    /\ nStruct = 0

\* the hierarchy of a replica that nested "b" in "a" in the root "r":
\* add_child("r", "a"); add_child("a", "b")
ChainNodes == AddChildNodes(AddChildNodes(<<>>, "r", "a"), "a", "b")

DispatchInit ==
    /\ HNew
    /\ nodes = ChainNodes
    /\ cap = [subs |-> MaxSubs, events |-> MaxEvents, struct |-> 0]
    /\ NoReplicas


frameVars == <<observers, deleted_observers, pending_dispatches, calling, taken,
               dispatches, event, pc, running, mutex>>

Callable == pc \in {"idle", "observer"}

\* the history describes the latest batch only: a call made by the replica
\* itself (not by an observer) starts from a clean history
KeptCalls == IF pc = "idle" THEN <<>> ELSE calls
KeptEvlog == IF pc = "idle" THEN <<>> ELSE evlog
KeptUnsubd == IF pc = "idle" THEN {} ELSE unsubd

KeepHistory == calls' = KeptCalls /\ evlog' = KeptEvlog /\ unsubd' = KeptUnsubd

(***************************************************************************)
(* Hierarchy operations.  Each is callable from the replica (pc = "idle")  *)
(* and, re-entrantly, from a running observer (pc = "observer").           *)
(***************************************************************************)
AddChild(parent, child) ==
    /\ pc = "idle"
    /\ nStruct < cap.struct
    /\ nStruct' = nStruct + 1
    /\ nodes' = AddChildNodes(nodes, parent, child)
    /\ KeepHistory
    /\ UNCHANGED <<frameVars, root_observers, latest_deleted, event_counter, debug_assertions, nEvents, cap, cvars, tvars>>
    /\ answer' = <<>>
    /\ effect' = <<>>

RemoveChild(parent, child) ==
    /\ pc = "idle"
    /\ nStruct < cap.struct
    /\ nStruct' = nStruct + 1
    /\ LET res == RemoveChildResult(nodes, latest_deleted, parent, child) IN
        /\ nodes' = res.nodes
        /\ latest_deleted' = res.latest_deleted
        /\ pc' = IF res.status = "hang" THEN "hang" ELSE pc
    /\ KeepHistory
    /\ UNCHANGED <<observers, deleted_observers, pending_dispatches, calling, taken,
                   dispatches, event, running, mutex,
                   root_observers, event_counter, debug_assertions, nEvents, cap, cvars, tvars>>
    /\ answer' = <<>>
    /\ effect' = <<[op |-> "remove_child", parent |-> parent, child |-> child, nodes |-> nodes,
                    latest_deleted |-> latest_deleted, repeated |-> FALSE]>>

\* take_deleted(); `latest_deleted` of the record is the set it returned
TakeDeleted ==
    /\ pc = "idle"
    /\ latest_deleted' = {}
    /\ KeepHistory
    /\ UNCHANGED <<frameVars, nodes, root_observers, event_counter, debug_assertions, nEvents, nStruct, cap, cvars, tvars>>
    /\ answer' = <<>>
    /\ effect' = <<[op |-> "take_deleted", parent |-> None, child |-> None, nodes |-> nodes,
                    latest_deleted |-> latest_deleted,
                    repeated |-> effect # <<>> /\ effect[1].op = "take_deleted"]>>

Subscribe(container, deep) ==
    /\ Callable
    /\ event_counter < cap.subs
    /\ LET id == event_counter
           ns == EntryOrDefault(nodes, container)
       IN /\ event_counter' = event_counter + 1
          /\ nodes' = IF deep THEN [ns EXCEPT ![container].deep_observers = @ \cup {id}]
                      ELSE [ns EXCEPT ![container].observers = @ \cup {id}]
          /\ observers' = observers \cup {id}
    /\ KeepHistory
    /\ UNCHANGED <<deleted_observers, pending_dispatches, calling, taken, dispatches, event,
                   pc, running, mutex,
                   root_observers, latest_deleted, debug_assertions, nEvents, nStruct, cap, cvars, tvars>>
    /\ answer' = <<>>
    /\ effect' = <<>>

SubscribeRoot ==
    /\ Callable
    /\ event_counter < cap.subs
    /\ event_counter' = event_counter + 1
    /\ root_observers' = root_observers \cup {event_counter}
    /\ observers' = observers \cup {event_counter}
    /\ KeepHistory
    /\ UNCHANGED <<deleted_observers, pending_dispatches, calling, taken, dispatches, event,
                   pc, running, mutex,
                   nodes, latest_deleted, debug_assertions, nEvents, nStruct, cap, cvars, tvars>>
    /\ answer' = <<>>
    /\ effect' = <<>>

\* the value unsubscribe returns
UnsubscribeFound(ns, container, id) == container \in DOMAIN ns /\ id \in ns[container].observers

\* mutant: the id is buffered whether or not a dispatch is in progress
PushDeletedAlways(isCalling, deleted, id) == Append(deleted, id)

\* deleted_observers after a successful unsubscribe
PushDeleted(isCalling, deleted, id) == IF isCalling THEN Append(deleted, id) ELSE deleted

Unsubscribe(container, id) ==
    /\ Callable
    /\ UnsubscribeFound(nodes, container, id)
    /\ nodes' = [nodes EXCEPT ![container].observers = @ \ {id}]
    /\ deleted_observers' = PushDeleted(calling, deleted_observers, id)
    /\ calls' = KeptCalls
    /\ evlog' = KeptEvlog
    /\ unsubd' = KeptUnsubd \cup (IF calling THEN {id} ELSE {})
    /\ UNCHANGED <<observers, pending_dispatches, calling, taken, dispatches, event,
                   pc, running, mutex,
                   root_observers, latest_deleted, event_counter, debug_assertions, nEvents, nStruct, cap, cvars, tvars>>
    /\ answer' = <<>>
    /\ effect' = <<>>

UnsubscribeRoot(sub) ==
    /\ Callable
    /\ sub \in root_observers
    /\ root_observers' = root_observers \ {sub}
    /\ deleted_observers' = PushDeleted(calling, deleted_observers, sub)
    /\ calls' = KeptCalls
    /\ evlog' = KeptEvlog
    /\ unsubd' = KeptUnsubd \cup (IF calling THEN {sub} ELSE {})
    /\ UNCHANGED <<observers, pending_dispatches, calling, taken, dispatches, event,
                   pc, running, mutex,
                   nodes, latest_deleted, event_counter, debug_assertions, nEvents, nStruct, cap, cvars, tvars>>
    /\ answer' = <<>>
    /\ effect' = <<>>

\* notify_without_lock(hierarchy, raw_event) for a raw event at target_id
Notify(target_id) ==
    /\ Callable
    /\ nEvents < cap.events
    /\ nEvents' = nEvents + 1
    /\ LET abs == GetAbsPath(nodes, target_id)
           ns == EntryOrDefault(nodes, target_id)
           built == BuildDispatches(ns, root_observers, target_id, abs.path, debug_assertions)
           ev == [diff |-> Len(KeptEvlog) + 1, target |-> target_id, absolute_path |-> abs.path,
                  relative_path |-> <<>>, current_target |-> target_id]
       IN IF TryLockFails(mutex) \/ abs.status = "hang" \/ built.status # "ok"
          THEN /\ pc' = IF TryLockFails(mutex) THEN "panic"
                        ELSE IF abs.status = "hang" THEN "hang" ELSE built.status
               /\ nodes' = IF TryLockFails(mutex) \/ abs.status = "hang" THEN nodes ELSE ns
               /\ KeepHistory
               /\ UNCHANGED <<observers, deleted_observers, pending_dispatches, calling, taken,
                              dispatches, event, running, mutex>>
          ELSE \E ds \in built.lists :
               LET entry == [target |-> target_id, absolute_path |-> abs.path, nodes |-> ns,
                             roots |-> root_observers, nested |-> calling, during |-> event.diff,
                             dispatches |-> ds, table |-> observers, counter |-> event_counter,
                             state |-> IF calling THEN "pending" ELSE "running"]
               IN /\ nodes' = ns
                  /\ IF calling
                     THEN /\ pending_dispatches' = <<[event |-> ev, dispatches |-> ds]>>
                          /\ evlog' = Append(KeptEvlog, entry)
                          /\ calls' = KeptCalls
                          /\ unsubd' = KeptUnsubd
                          /\ UNCHANGED <<observers, deleted_observers, calling, taken, dispatches,
                                         event, pc, running, mutex>>
                     ELSE SetFrame(CallObservers([Frame EXCEPT !.calling = TRUE,
                                                               !.mutex = DropGuard(TRUE),
                                                               !.taken = observers,
                                                               !.observers = {},
                                                               !.dispatches = ds,
                                                               !.event = ev,
                                                               !.evlog = Append(KeptEvlog, entry),
                                                               !.calls = KeptCalls,
                                                               !.unsubd = KeptUnsubd]))
    /\ UNCHANGED <<root_observers, latest_deleted, event_counter, debug_assertions, nStruct, cap, cvars, tvars>>
    /\ answer' = <<>>
    /\ effect' = <<>>

\* the running observer returns into call_observers
ObserverReturn ==
    /\ pc = "observer"
    /\ SetFrame(CallObservers([Frame EXCEPT !.running = <<>>]))
    /\ UNCHANGED <<nodes, root_observers, latest_deleted, event_counter, debug_assertions, nEvents, nStruct, cap, cvars, tvars>>
    /\ answer' = <<>>
    /\ effect' = <<>>

DispatchNext ==
    \/ \E c \in ContainerIDs, deep \in BOOLEAN : Subscribe(c, deep)
    \/ SubscribeRoot
    \/ \E c \in ContainerIDs, id \in 0..(cap.subs - 1) : Unsubscribe(c, id)
    \/ \E id \in 0..(cap.subs - 1) : UnsubscribeRoot(id)
    \/ \E c \in ContainerIDs : Notify(c)
    \/ ObserverReturn

\* get_path(reg, descendant, None) and get_path_len(descendant), asked by
\* the replica
Query(descendant) ==
    /\ pc = "idle"
    /\ answer' = <<[id |-> descendant, path |-> GetPath(nodes, descendant),
                    len |-> GetPathLen(nodes, descendant)]>>
    /\ answer' # answer
    /\ effect' = <<>>
    /\ KeepHistory
    /\ UNCHANGED <<frameVars, nodes, root_observers, latest_deleted, event_counter,
                   debug_assertions, nEvents, nStruct, cap, cvars, tvars>>

\* a replica that nests and detaches containers
StructInit ==
    /\ HNew
    /\ nodes = <<>>
    /\ cap = [subs |-> MaxStructSubs, events |-> 0, struct |-> MaxStructOps]
    /\ NoReplicas

StructNext ==
    \/ \E e \in TreeEdges : AddChild(e[1], e[2])
    \/ \E e \in TreeEdges : RemoveChild(e[1], e[2])
    \/ TakeDeleted
    \/ \E c \in ContainerIDs, deep \in BOOLEAN : Subscribe(c, deep)
    \/ \E c \in ContainerIDs : Query(c)

SpecStruct == StructInit /\ [][StructNext]_vars

\* a hierarchy driven through its public interface, containers nested,
\* moved and detached in any order
EdgeInit ==
    /\ HNew
    /\ nodes = <<>>
    /\ cap = [subs |-> MaxEdgeSubs, events |-> MaxEdgeEvents, struct |-> MaxEdgeOps]
    /\ NoReplicas

EdgeNext ==
    \/ \E e \in Edges : AddChild(e[1], e[2])
    \/ \E e \in Edges : RemoveChild(e[1], e[2])
    \/ TakeDeleted
    \/ \E c \in ContainerIDs, deep \in BOOLEAN : Subscribe(c, deep)
    \/ SubscribeRoot
    \/ \E c \in ContainerIDs, id \in 0..(cap.subs - 1) : Unsubscribe(c, id)
    \/ \E id \in 0..(cap.subs - 1) : UnsubscribeRoot(id)
    \/ \E c \in ContainerIDs : Notify(c)
    \/ ObserverReturn

SpecEdges == EdgeInit /\ [][EdgeNext]_vars

\* observer dispatch on a fixed container chain
SpecDispatch == DispatchInit /\ [][DispatchNext]_vars

\* the same chain with enough subscriptions for one observer of each kind
PassInit ==
    /\ HNew
    /\ nodes = ChainNodes
    /\ cap = [subs |-> MaxPassSubs, events |-> MaxPassEvents, struct |-> 0]
    /\ NoReplicas

SpecPass == PassInit /\ [][DispatchNext]_vars

(***************************************************************************)
(* Properties of observer dispatch.                                        *)
(***************************************************************************)
RECURSIVE ChainOf(_, _, _)
\* the containers from c up to the top of its parent chain, c first
ChainOf(ns, c, n) ==
    IF c \notin DOMAIN ns \/ n = 0 THEN <<>>
    ELSE IF ns[c].parent = None THEN <<c>>
    ELSE <<c>> \o ChainOf(ns, ns[c].parent, n - 1)

OnRootChain(ns, c) ==
    LET ch == ChainOf(ns, c, Fuel) IN ch # <<>> /\ IsRoot(ch[Len(ch)]) /\ ns[ch[Len(ch)]].parent = None

Suffix(path, n) == SubSeq(path, Len(path) - n + 1, Len(path))

CallsFor(e, sub) == {k \in 1..Len(calls) : calls[k].diff = e /\ calls[k].sub = sub}

\* C7: for a delivered event at container C on a chain root -> ... -> C,
\* every shallow observer of C is invoked exactly once with an empty relative
\* path, every deep observer of C or of an ancestor A exactly once with the
\* suffix of the absolute path leading from A to C and current_target = A,
\* every root observer exactly once with the absolute path, and no other
\* observer is invoked.
ObserverDelivery ==
    \A e \in 1..Len(evlog) :
        LET L == evlog[e]
            chain == ChainOf(L.nodes, L.target, Fuel)
            deepAt(i) == L.nodes[chain[i]].deep_observers
            expected == L.nodes[L.target].observers \cup L.roots
                        \cup UNION {deepAt(i) : i \in 1..Len(chain)}
        IN (L.state = "done" /\ OnRootChain(L.nodes, L.target)) =>
            /\ \A s \in L.nodes[L.target].observers :
                /\ Cardinality(CallsFor(e, s)) = 1
                /\ \A k \in CallsFor(e, s) : calls[k].relative_path = <<>>
            /\ \A i \in 1..Len(chain) : \A s \in deepAt(i) :
                /\ Cardinality(CallsFor(e, s)) = 1
                /\ \A k \in CallsFor(e, s) :
                    /\ calls[k].relative_path = Suffix(L.absolute_path, i - 1)
                    /\ calls[k].current_target = chain[i]
            /\ \A s \in L.roots :
                /\ Cardinality(CallsFor(e, s)) = 1
                /\ \A k \in CallsFor(e, s) : calls[k].relative_path = L.absolute_path
            /\ \A k \in 1..Len(calls) : calls[k].diff = e => calls[k].sub \in expected

\* an event at "b" was delivered to a shallow observer of "b" and to a deep
\* observer of the root two levels above
ObserverDeliveryWitness ==
    \E e \in 1..Len(evlog) :
        /\ evlog[e].state = "done"
        /\ evlog[e].target = "b"
        /\ evlog[e].nodes["b"].observers # {}
        /\ evlog[e].nodes["r"].deep_observers # {}
        /\ \E k \in 1..Len(calls) : calls[k].diff = e /\ Len(calls[k].relative_path) = 2

Delivered(e) ==
    \A i \in 1..Len(evlog[e].dispatches) :
        \A s \in Range(evlog[e].dispatches[i].sub_ids) : CallsFor(e, s) # {}

\* C8: every event passed to notify while a dispatch is in progress has had
\* its observers invoked, after those of the event in progress, by the time
\* the outermost notify returns -- however many were raised.
ReentrantDelivery ==
    pc = "idle" =>
        \A e \in 1..Len(evlog) : evlog[e].nested =>
            /\ Delivered(e)
            /\ \A k1, k2 \in 1..Len(calls) :
                (calls[k1].diff = evlog[e].during /\ calls[k2].diff = e) => k1 < k2

\* C9: an observer unsubscribed while a dispatch is in progress is not
\* invoked again in that batch.
UnsubscribedNotInvoked ==
    \A k \in 1..Len(calls) : ~calls[k].unsubscribed

\* C10: when the outermost notify has returned the hierarchy is back in
\* calling = false, pending = none, deleted_observers empty; calling is true
\* exactly while observers of the batch may still be invoked.
DispatchStateMachine ==
    /\ pc = "idle" => (~calling /\ pending_dispatches = <<>> /\ deleted_observers = <<>>)
    /\ pc = "observer" => calling
    /\ calling => pc \in {"observer", "panic"}

\* a batch has returned in which an observer raised an event that was then
\* drained and an observer was unsubscribed
DispatchStateMachineWitness ==
    /\ pc = "idle"
    /\ unsubd # {}
    /\ \E e \in 1..Len(evlog) : evlog[e].nested /\ evlog[e].state = "done" /\ Delivered(e)
                                 /\ evlog[e].dispatches # <<>>

\* where the dispatch list of an event puts an observer: 0 for a shallow
\* observer of the target, i for a deep observer of the i-th container of
\* the chain from the target upward, one more for a root observer
PassRank(L, s) ==
    LET chain == ChainOf(L.nodes, L.target, Fuel)
        deep == {i \in 1..Len(chain) : s \in L.nodes[chain[i]].deep_observers}
    IN  IF s \in L.nodes[L.target].observers THEN 0
        ELSE IF deep # {} THEN CHOOSE i \in deep : TRUE
        ELSE Len(chain) + 1

\* C11: within the pass of one event the observers are invoked in the
\* order shallow observers of the target, deep observers from the target
\* up to the root, root observers.
PassOrder ==
    \A k1, k2 \in 1..Len(calls) :
        (k1 < k2 /\ calls[k1].diff = calls[k2].diff) =>
            PassRank(evlog[calls[k1].diff], calls[k1].sub) <= PassRank(evlog[calls[k1].diff], calls[k2].sub)

\* an event at "b" went to a shallow observer of "b", then to a deep
\* observer of an ancestor, then to a root observer
PassOrderWitness ==
    \E k \in 1..Len(calls) :
        /\ k + 2 <= Len(calls)
        /\ calls[k].diff = calls[k + 2].diff
        /\ evlog[calls[k].diff].target = "b"
        /\ calls[k].sub \in evlog[calls[k].diff].nodes["b"].observers
        /\ calls[k + 1].current_target \in {"a", "r"}
        /\ calls[k + 2].sub \in evlog[calls[k].diff].roots

\* C12: the hierarchy mutex is not held while an observer callback runs
\* nor between calls, so every try_lock made by the replica or by an
\* observer that re-enters the hierarchy succeeds.
MutexFreeInCallbacks == Callable => ~TryLockFails(mutex)

\* the observer of an event that was queued as pending and drained by reset
\* is running, and the mutex is free
MutexFreeInCallbacksWitness ==
    /\ pc = "observer"
    /\ ~mutex
    /\ \E e \in 1..Len(evlog) : evlog[e].nested /\ evlog[e].state = "running" /\ event.diff = e

RECURSIVE WalkEnd(_, _, _)
\* the container at which following parent links from d comes to rest
WalkEnd(ns, d, n) ==
    IF d \notin DOMAIN ns THEN <<d>>
    ELSE IF ns[d].parent = None THEN <<d>>
    ELSE IF n = 0 THEN <<>>
    ELSE WalkEnd(ns, ns[d].parent, n - 1)

TerminatesAtRoot(ns, d) == WalkEnd(ns, d, Fuel) # <<>> /\ IsRoot(WalkEnd(ns, d, Fuel)[1])

\* the walk from d is cut at a container remove_child has removed
Detached(ns, deleted, d) == WalkEnd(ns, d, Fuel) # <<>> /\ WalkEnd(ns, d, Fuel)[1] \in deleted

\* C13: get_path(descendant, None) and get_path_len(descendant) return
\* Some exactly when following parent links from the descendant ends at a
\* root container; both return None for a container that remove_child
\* removed or that hangs below a removed one.
PathResolution ==
    answer # <<>> =>
        /\ (answer[1].path.status = "some") <=> TerminatesAtRoot(nodes, answer[1].id)
        /\ (answer[1].len.status = "some") <=> TerminatesAtRoot(nodes, answer[1].id)
        /\ Detached(nodes, latest_deleted, answer[1].id) =>
               (answer[1].path.status = "none" /\ answer[1].len.status = "none")

\* "b" was asked for while registered below "a", which had been removed
\* together with it and is no longer attached to the root
PathResolutionWitness ==
    /\ answer # <<>>
    /\ answer[1].id = "b"
    /\ "b" \in DOMAIN nodes
    /\ nodes["b"].parent = "a"
    /\ {"a", "b"} \subseteq latest_deleted
    /\ answer[1].path.status = "none"
    /\ answer[1].len.status = "none"

\* C20 (Take-and-restore preserves registrations): when an outermost
\* notify has returned, the observer table holds the observers it held
\* when the notify began and those subscribed by callbacks during it,
\* except exactly those unsubscribed during it.
TakeAndRestore ==
    (pc = "idle" /\ evlog # <<>>) =>
        observers = (evlog[1].table \cup (evlog[1].counter..(event_counter - 1))) \ unsubd

\* the dispatch list notify_without_lock builds for an event at c
BuiltFor(c) ==
    BuildDispatches(EntryOrDefault(nodes, c), root_observers, c, GetAbsPath(nodes, c).path,
                    debug_assertions)

\* C22: should_notify(c) is true exactly when notify_without_lock for an
\* event at c builds a non-empty dispatch list.
ShouldNotifyAgrees ==
    \A c \in ContainerIDs :
        (ShouldNotify(nodes, root_observers, c) = "true")
            <=> (BuiltFor(c).status = "ok" /\ BuiltFor(c).lists # {<<>>})

RECURSIVE Below(_, _, _)
\* c and the containers that hang below c through children sets
Below(ns, c, n) ==
    IF c \notin DOMAIN ns \/ n = 0 THEN {c}
    ELSE {c} \cup UNION {Below(ns, k, n - 1) : k \in ns[c].children}

RepeatedTakeWitness ==
    /\ effect # <<>>
    /\ effect[1].op = "take_deleted"
    /\ effect[1].repeated
    /\ effect[1].latest_deleted = {}

(***************************************************************************)
(* Replicas: operation log and sequence CRDT (spec.md sections 3, 4.2,     *)
(* 4.3, 4.5 and 6), driven as crates/loro-core/src/fuzz.rs drives them.    *)
(***************************************************************************)
NumSites == 2       \* replicas of a multi-site run
MaxOps == 3         \* changes created by local edits in a multi-site run
MaxSingleOps == 4   \* changes created in a single-client run
MaxInsLen == 2      \* characters of one insert
MaxPos == 4         \* raw `pos` / `len` of an action, before preprocess
MaxApiOps == 3      \* edits made through the text handle in an API run

\* OpId = (SiteId, Counter); the null sentinel of origins at the endpoints
NullId == <<-1, -1>>

\* lexicographic (site, counter)
IdLess(a, b) == a[1] < b[1] \/ (a[1] = b[1] /\ a[2] < b[2])

Min(S) == CHOOSE x \in S : \A y \in S : x <= y

Max(S) == CHOOSE x \in S : \A y \in S : y <= x

\* the payload the drivers insert: characters that occur nowhere else
Content(site, ctr, n) == [i \in 1..n |-> <<site, ctr + i - 1>>]

(***************************************************************************)
(* Sequence elements (runs).                                               *)
(***************************************************************************)
Alive(e) == e.by = NullId

FirstId(e) == <<e.site, e.ctr>>

LastId(e) == <<e.site, e.ctr + e.len - 1>>

HasId(e, id) == e.site = id[1] /\ e.ctr <= id[2] /\ id[2] < e.ctr + e.len

\* get_value(): the payload of the Alive runs, in sequence order
RECURSIVE Value(_)
Value(seq) ==
    IF seq = <<>> THEN <<>>
    ELSE (IF Alive(Head(seq)) THEN Head(seq).content ELSE <<>>) \o Value(Tail(seq))

TextLen(seq) == Len(Value(seq))

\* the OpIds of all characters / of the visible characters, in sequence order
RECURSIVE Ids(_)
Ids(seq) ==
    IF seq = <<>> THEN <<>>
    ELSE [i \in 1..Head(seq).len |-> <<Head(seq).site, Head(seq).ctr + i - 1>>] \o Ids(Tail(seq))

RECURSIVE VisibleIds(_)
VisibleIds(seq) ==
    IF seq = <<>> THEN <<>>
    ELSE (IF Alive(Head(seq)) THEN Ids(<<Head(seq)>>) ELSE <<>>) \o VisibleIds(Tail(seq))

\* slice a run after its k-th character, 0 < k < len: the right part was
\* inserted right after the left part's last character
SplitRun(e, k) ==
    << [e EXCEPT !.len = k, !.content = SubSeq(e.content, 1, k)],
       [e EXCEPT !.ctr = e.ctr + k, !.len = e.len - k,
                 !.ol = <<e.site, e.ctr + k - 1>>,
                 !.content = SubSeq(e.content, k + 1, e.len)] >>

ReplaceAt(seq, i, items) == SubSeq(seq, 1, i - 1) \o items \o SubSeq(seq, i + 1, Len(seq))

InsertAt(seq, i, e) == SubSeq(seq, 1, i - 1) \o <<e>> \o SubSeq(seq, i, Len(seq))

\* the auxiliary map OpId -> cursor
IndexOfId(seq, id) == CHOOSE i \in 1..Len(seq) : HasId(seq[i], id)

\* split so that `id` is the last character of its run
SplitAfter(seq, id) ==
    LET i == IndexOfId(seq, id)
        e == seq[i]
        k == id[2] - e.ctr + 1
    IN  IF k = e.len THEN seq ELSE ReplaceAt(seq, i, SplitRun(e, k))

\* a delete that takes the covered runs out of the sequence
RECURSIVE TombstoneRemoves(_, _, _)
TombstoneRemoves(seq, targets, by) ==
    IF seq = <<>> THEN <<>>
    ELSE LET e == Head(seq)
             In(k) == <<e.site, e.ctr + k - 1>> \in targets
             cuts == {k \in 1..(e.len - 1) : In(k) # In(k + 1)}
         IN  IF ~Alive(e) THEN <<e>> \o TombstoneRemoves(Tail(seq), targets, by)
             ELSE IF cuts # {} THEN TombstoneRemoves(SplitRun(e, Min(cuts)) \o Tail(seq), targets, by)
             ELSE (IF In(1) THEN <<>> ELSE <<e>>) \o TombstoneRemoves(Tail(seq), targets, by)

\* remote_delete / the flip of delete: split at the boundaries of the
\* target and flip the covered Alive runs to Tombstoned(by)
RECURSIVE Tombstone(_, _, _)
Tombstone(seq, targets, by) ==
    IF seq = <<>> THEN <<>>
    ELSE LET e == Head(seq)
             In(k) == <<e.site, e.ctr + k - 1>> \in targets
             cuts == {k \in 1..(e.len - 1) : In(k) # In(k + 1)}
         IN  IF ~Alive(e) THEN <<e>> \o Tombstone(Tail(seq), targets, by)
             ELSE IF cuts # {} THEN Tombstone(SplitRun(e, Min(cuts)) \o Tail(seq), targets, by)
             ELSE <<IF In(1) THEN [e EXCEPT !.by = by] ELSE e>> \o Tombstone(Tail(seq), targets, by)

(***************************************************************************)
(* Changes and the log.                                                    *)
(***************************************************************************)
ChangeId(c) == <<c.site, c.ctr>>

\* the change of the log whose span covers `id`
ChangeOf(log, id) == CHOOSE k \in 1..Len(log) : HasId(log[k], id)

\* lamport = 1 + max(dep.lamport)
Lamport(log, deps) == 1 + Max({0} \cup {log[ChangeOf(log, d)].lamport : d \in deps})

\* is `id` in the causal past described by `deps`?
RECURSIVE InPast(_, _, _)
InPast(log, deps, id) ==
    \E d \in deps :
        \/ d[1] = id[1] /\ id[2] <= d[2]
        \/ InPast(log, log[ChangeOf(log, d)].deps, id)

\* two changes of a log neither of which depends on the other
Concurrent(log, c, d) ==
    /\ ~InPast(log, c.deps, ChangeId(d))
    /\ ~InPast(log, d.deps, ChangeId(c))

\* (lamport asc, then OpId)
ChangeLess(c, d) == c.lamport < d.lamport \/ (c.lamport = d.lamport /\ IdLess(ChangeId(c), ChangeId(d)))

MinChange(S) == CHOOSE c \in S : \A d \in S \ {c} : ChangeLess(c, d)

RECURSIVE SortChanges(_)
SortChanges(S) == IF S = {} THEN <<>> ELSE <<MinChange(S)>> \o SortChanges(S \ {MinChange(S)})

InsChange(site, ctr, content, ol, or, deps, lamport) ==
    [site |-> site, ctr |-> ctr, len |-> Len(content), lamport |-> lamport, deps |-> deps,
     kind |-> "ins", content |-> content, ol |-> ol, or |-> or, targets |-> {}]

DelChange(site, ctr, targets, deps, lamport) ==
    [site |-> site, ctr |-> ctr, len |-> Cardinality(targets), lamport |-> lamport, deps |-> deps,
     kind |-> "del", content |-> <<>>, ol |-> NullId, or |-> NullId, targets |-> targets]

\* the run an insert creates
RunOf(c) ==
    [site |-> c.site, ctr |-> c.ctr, len |-> c.len, ol |-> c.ol, or |-> c.or,
     content |-> c.content, by |-> NullId]

(***************************************************************************)
(* A replica: [site, log, vv, frontier, seq, cache].                       *)
(***************************************************************************)
NewReplica(site, sites) ==
    [site |-> site, log |-> <<>>, vv |-> [s \in sites |-> 0], frontier |-> {}, seq |-> <<>>,
     cache |-> 0]

\* text_len(): the root aggregate of the index tree
text_len(rep) == rep.cache

\* a log that leaves one counter out after every change
CommitSkipsCounter(rep, c, seq) ==
    [rep EXCEPT !.log = Append(@, c),
                !.vv[c.site] = c.ctr + c.len + 1,
                !.frontier = (@ \ c.deps) \cup {<<c.site, c.ctr + c.len - 1>>},
                !.seq = seq]

\* append a change whose dependencies are present
Commit(rep, c, seq) ==
    [rep EXCEPT !.log = Append(@, c),
                !.vv[c.site] = c.ctr + c.len,
                !.frontier = (@ \ c.deps) \cup {<<c.site, c.ctr + c.len - 1>>},
                !.seq = seq]

\* an insert that spends a counter on a position it rejects
InsertSpendsCounter(rep, pos, content) ==
    IF pos > text_len(rep)
    THEN [err |-> "OutOfBounds", replica |-> [rep EXCEPT !.vv[rep.site] = @ + 1]]
    ELSE LET ol == IF pos = 0 THEN NullId ELSE VisibleIds(rep.seq)[pos]
             s1 == IF pos = 0 THEN rep.seq ELSE SplitAfter(rep.seq, ol)
             at == IF pos = 0 THEN 1 ELSE IndexOfId(s1, ol) + 1
             or == IF at <= Len(s1) THEN FirstId(s1[at]) ELSE NullId
             c  == InsChange(rep.site, rep.vv[rep.site], content, ol, or,
                             rep.frontier, Lamport(rep.log, rep.frontier))
         IN  [err |-> "ok",
              replica |-> [Commit(rep, c, InsertAt(s1, at, RunOf(c))) EXCEPT !.cache = @ + c.len]]

\* TextHandle.insert(pos, content)
Insert(rep, pos, content) ==
    IF pos > text_len(rep) THEN [err |-> "OutOfBounds", replica |-> rep]
    ELSE LET ol == IF pos = 0 THEN NullId ELSE VisibleIds(rep.seq)[pos]
             s1 == IF pos = 0 THEN rep.seq ELSE SplitAfter(rep.seq, ol)
             at == IF pos = 0 THEN 1 ELSE IndexOfId(s1, ol) + 1
             or == IF at <= Len(s1) THEN FirstId(s1[at]) ELSE NullId
             c  == InsChange(rep.site, rep.vv[rep.site], content, ol, or,
                             rep.frontier, Lamport(rep.log, rep.frontier))
         IN  [err |-> "ok",
              replica |-> [Commit(rep, c, InsertAt(s1, at, RunOf(c))) EXCEPT !.cache = @ + c.len]]

\* TextHandle.delete(pos, len)
Delete(rep, pos, len) ==
    LET n  == text_len(rep)
        hi == IF pos + len < n THEN pos + len ELSE n
    IN  IF n = 0 \/ pos >= hi THEN [err |-> "ok", replica |-> rep]
        ELSE LET targets == {VisibleIds(rep.seq)[k] : k \in (pos + 1)..hi}
                 c == DelChange(rep.site, rep.vv[rep.site], targets,
                                rep.frontier, Lamport(rep.log, rep.frontier))
             IN  [err |-> "ok",
                  replica |-> [Commit(rep, c, Tombstone(rep.seq, targets, ChangeId(c)))
                                   EXCEPT !.cache = @ - c.len]]

\* an element the newcomer competes with: between the same origins and
\* inserted concurrently
Peer(log, e, c) ==
    /\ e.ol = c.ol
    /\ e.or = c.or
    /\ ~InPast(log, c.deps, FirstId(e))

\* steps 2 and 3 of remote_insert: the index the newcomer is inserted at
RECURSIVE Scan(_, _, _, _)
Scan(log, seq, c, i) ==
    IF i > Len(seq) THEN i
    ELSE IF FirstId(seq[i]) = c.or THEN i
    ELSE IF ~Peer(log, seq[i], c) THEN i
    ELSE IF IdLess(ChangeId(c), FirstId(seq[i])) THEN i
    ELSE Scan(log, seq, c, i + 1)

\* remote_insert(id_span, origin_left, origin_right, content)
RemoteInsert(log, seq, c) ==
    LET s1 == IF c.ol = NullId THEN seq ELSE SplitAfter(seq, c.ol)
        start == IF c.ol = NullId THEN 1 ELSE IndexOfId(s1, c.ol) + 1
    IN  InsertAt(s1, Scan(log, s1, c, start), RunOf(c))

\* a remote delete that takes every target for visible
RemoteDeleteLenAll(seq, targets) == Cardinality(targets)

\* what a remote delete takes off the visible length: the targets it flips
RemoteDeleteLen(seq, targets) == Cardinality(targets \cap Range(VisibleIds(seq)))

\* dispatch the ops of a newly applied change to the text container
ApplyChange(rep, c) ==
    IF c.kind = "ins"
    THEN [Commit(rep, c, RemoteInsert(rep.log, rep.seq, c)) EXCEPT !.cache = @ + c.len]
    ELSE [Commit(rep, c, Tombstone(rep.seq, c.targets, ChangeId(c)))
              EXCEPT !.cache = @ - RemoteDeleteLen(rep.seq, c.targets)]

\* a log that takes its latest change of a site for a new one
KnownButLatest(rep, c) == c.ctr + c.len < rep.vv[c.site]

\* a change the log already holds
Known(rep, c) == c.ctr < rep.vv[c.site]

\* a log that takes every change for applicable
ReadyWithoutDeps(rep, c) == TRUE

\* a change whose deps are fully present
Ready(rep, c) == \A d \in c.deps : d[2] < rep.vv[d[1]]

RECURSIVE ImportPending(_, _)
ImportPending(rep, pending) ==
    LET fresh == {c \in pending : ~Known(rep, c)}
        ready == {c \in fresh : Ready(rep, c)}
    IN  IF fresh = {} THEN [err |-> "ok", replica |-> rep]
        ELSE IF ready = {} THEN [err |-> "MissingDependency", replica |-> rep]
        ELSE ImportPending(ApplyChange(rep, MinChange(ready)), fresh \ {MinChange(ready)})

\* a failed import that keeps what it had applied
RolledBackNot(before, after) == after

\* what a failed import leaves behind: integration is a transaction
RolledBack(before, after) == before

\* import(changes)
Import(rep, packet) ==
    LET r == ImportPending(rep, Range(packet))
    IN  IF r.err = "ok" THEN r ELSE [err |-> r.err, replica |-> RolledBack(rep, r.replica)]

\* export(remote_vv)
Export(rep, remote_vv) == SortChanges({c \in Range(rep.log) : c.ctr >= remote_vv[c.site]})

(***************************************************************************)
(* fuzz.rs: actions and the two drivers.                                   *)
(***************************************************************************)
InsAction(content, pos, site) == [kind |-> "Ins", content |-> content, pos |-> pos, len |-> 0, site |-> site]

DelAction(pos, len, site) == [kind |-> "Del", content |-> <<>>, pos |-> pos, len |-> len, site |-> site]

\* Action::preprocess
ActionPreprocess(a, max_len, max_users) ==
    IF a.kind = "Ins" THEN [a EXCEPT !.pos = a.pos % (max_len + 1), !.site = a.site % max_users]
    ELSE IF max_len = 0 THEN [a EXCEPT !.pos = 0, !.len = 0, !.site = a.site % max_users]
    ELSE [a EXCEPT !.pos = a.pos % max_len,
                   !.len = Min({a.len, max_len - (a.pos % max_len)}),
                   !.site = a.site % max_users]

\* impl Actionable for String: preprocess (every character is one byte)
StringPreprocess(s, a) ==
    LET b == ActionPreprocess(a, Len(s), 1)
    IN  IF b.kind = "Ins" THEN b
        ELSE IF s = <<>> THEN [b EXCEPT !.len = 0, !.pos = 0]
        ELSE [b EXCEPT !.len = Min({b.len, Len(s) - b.pos})]

\* a String that drains one character too many
StringApplyActionDrainOneMore(s, a) ==
    IF a.kind = "Ins" THEN SubSeq(s, 1, a.pos) \o a.content \o SubSeq(s, a.pos + 1, Len(s))
    ELSE IF s = <<>> THEN s
    ELSE SubSeq(s, 1, a.pos) \o SubSeq(s, a.pos + a.len + 2, Len(s))

\* impl Actionable for String: apply_action (insert_str / drain)
StringApplyAction(s, a) ==
    IF a.kind = "Ins" THEN SubSeq(s, 1, a.pos) \o a.content \o SubSeq(s, a.pos + 1, Len(s))
    ELSE IF s = <<>> THEN s
    ELSE SubSeq(s, 1, a.pos) \o SubSeq(s, a.pos + a.len + 1, Len(s))

\* impl Actionable for TextContainer: apply_action
TextContainerApplyAction(rep, a) ==
    IF a.kind = "Ins" THEN Insert(rep, a.pos, a.content).replica
    ELSE IF text_len(rep) = 0 THEN rep
    ELSE Delete(rep, a.pos, a.len).replica

\* impl Actionable for Vec<LoroCore>: preprocess of Ins and Del
SitesPreprocess(sites, a) ==
    LET site == a.site % Cardinality(DOMAIN sites)
        n == text_len(sites[site])
    IN  IF a.kind = "Ins" THEN [a EXCEPT !.site = site, !.pos = a.pos % (n + 1)]
        ELSE IF n = 0 THEN [a EXCEPT !.site = site, !.len = 0, !.pos = 0]
        ELSE [a EXCEPT !.site = site, !.pos = a.pos % (n + 1),
                       !.len = Min({a.len, n - (a.pos % (n + 1))})]

\* impl Actionable for Vec<LoroCore>: apply_action of Ins and Del
SitesApplyAction(sites, a) ==
    IF a.kind = "Ins" THEN [sites EXCEPT ![a.site] = Insert(@, a.pos, a.content).replica]
    ELSE [sites EXCEPT ![a.site] = Delete(@, a.pos, a.len).replica]

\* the import of apply_action's Sync arm, with what it met
ImportInto(sites, to, packet) == Import(sites[to], packet)

\* a Sync arm that exports against the sender's own version
SyncPacketOwnVersion(sites, from, to) == Export(sites[from], sites[from].vv)

\* the packet of apply_action's Sync arm
SyncPacket(sites, from, to) == Export(sites[from], sites[to].vv)

(***************************************************************************)
(* Runs of the drivers.  The hierarchy is left as Hierarchy::new() made it.*)
(***************************************************************************)
HierarchyUnused ==
    /\ NoTree
    /\ HNew
    /\ debug_assertions = TRUE
    /\ nodes = <<>>
    /\ cap = [subs |-> 0, events |-> 0, struct |-> 0]

NoImport == <<>>

\* test_single_client: LoroCore::new(Default::default(), Some(1)), String::new()
SingleInit ==
    /\ HierarchyUnused
    /\ replicas = [s \in {1} |-> NewReplica(1, {1})]
    /\ ground_truth = <<>>
    /\ last = NoImport
    /\ edit = <<>>
    /\ nOps = 0

\* test_multi_sites: sites.push(LoroCore::new(Default::default(), Some(i)))
SitesInit ==
    /\ HierarchyUnused
    /\ replicas = [s \in 0..(NumSites - 1) |-> NewReplica(s, 0..(NumSites - 1))]
    /\ ground_truth = <<>>
    /\ last = NoImport
    /\ edit = <<>>
    /\ nOps = 0

Changes(sites) == UNION {Range(sites[s].log) : s \in DOMAIN sites}

\* one iteration of test_single_client's loop over a raw action
ClientStep(raw) ==
    LET a == StringPreprocess(ground_truth, raw)
        text_container == TextContainerApplyAction(replicas[1], a)
    IN  /\ nOps < MaxSingleOps
        /\ ground_truth' = StringApplyAction(ground_truth, a)
        /\ replicas' = [replicas EXCEPT ![1] = text_container]
        /\ nOps' = nOps + Len(text_container.log) - Len(replicas[1].log)
        /\ UNCHANGED <<last, edit, hvars, tvars>>

ClientIns(n, pos) == ClientStep(InsAction(Content(1, replicas[1].vv[1], n), pos, 0))

ClientDel(pos, len) == ClientStep(DelAction(pos, len, 0))

\* one iteration of test_multi_sites' loop over a raw Ins or Del
SitesStep(raw) ==
    LET a == SitesPreprocess(replicas, raw)
        sites == SitesApplyAction(replicas, a)
    IN  /\ nOps < MaxOps
        /\ replicas' = sites
        /\ nOps' = nOps + Cardinality(Changes(sites)) - Cardinality(Changes(replicas))
        /\ last' = NoImport
        /\ UNCHANGED <<ground_truth, edit, hvars, tvars>>

Ins(n, pos, site) ==
    SitesStep(InsAction(Content(site % NumSites, replicas[site % NumSites].vv[site % NumSites], n), pos, site))

Del(pos, len, site) == SitesStep(DelAction(pos, len, site))

\* an import into `to`, recorded with the state it met
Receive(to, packet, again) ==
    LET r == ImportInto(replicas, to, packet)
    IN  /\ replicas' = [replicas EXCEPT ![to] = r.replica]
        /\ last' = <<[to |-> to, packet |-> packet, before |-> replicas[to],
                      err |-> r.err, again |-> again]>>
        /\ UNCHANGED <<ground_truth, edit, nOps, hvars, tvars>>

\* Action::Sync { from, to }
Sync(from, to) ==
    Receive(to % NumSites, SyncPacket(replicas, from % NumSites, to % NumSites), FALSE)

\* import of a packet that lost some of its change records on the way,
\* or that carries them in the opposite order
Deliver(from, to, batch, backwards) ==
    /\ batch # {}
    /\ IF backwards THEN Cardinality(batch) > 1 ELSE batch # Range(SyncPacket(replicas, from, to))
    /\ Receive(to, IF backwards THEN Reverse(SortChanges(batch)) ELSE SortChanges(batch), FALSE)

\* import of the packet just imported, once more
Redeliver ==
    /\ last # NoImport
    /\ ~last[1].again
    /\ Receive(last[1].to, last[1].packet, TRUE)

SingleNext ==
    \/ \E n \in 1..MaxInsLen, pos \in 0..MaxPos : ClientIns(n, pos)
    \/ \E pos \in 0..MaxPos, len \in 0..MaxPos : ClientDel(pos, len)

SitesNext ==
    \/ \E n \in 1..MaxInsLen, pos \in 0..MaxPos, site \in 0..NumSites : Ins(n, pos, site)
    \/ \E pos \in 0..MaxPos, len \in 0..MaxPos, site \in 0..NumSites : Del(pos, len, site)
    \/ \E from \in 0..NumSites, to \in 0..NumSites : Sync(from, to)
    \/ \E from \in DOMAIN replicas, to \in DOMAIN replicas :
           \E batch \in SUBSET Range(SyncPacket(replicas, from, to)), backwards \in BOOLEAN :
               Deliver(from, to, batch, backwards)
    \/ Redeliver

\* TextHandle.insert(pos, content) called by an application, with what it met
TextInsert(site, pos, n) ==
    LET r == Insert(replicas[site], pos, Content(site, replicas[site].vv[site], n))
    IN  /\ nOps < MaxApiOps
        /\ replicas' = [replicas EXCEPT ![site] = r.replica]
        /\ edit' = <<[site |-> site, pos |-> pos, len |-> n, err |-> r.err, before |-> replicas[site]]>>
        /\ nOps' = nOps + 1
        /\ last' = NoImport
        /\ UNCHANGED <<ground_truth, hvars, tvars>>

\* TextHandle.delete(pos, len) called by an application
TextDelete(site, pos, len) ==
    /\ nOps < MaxApiOps
    /\ replicas' = [replicas EXCEPT ![site] = Delete(@, pos, len).replica]
    /\ replicas' # replicas
    /\ edit' = <<>>
    /\ nOps' = nOps + 1
    /\ last' = NoImport
    /\ UNCHANGED <<ground_truth, hvars, tvars>>

\* to.import(from.export(to.vv())) called by an application
Exchange(from, to) ==
    /\ replicas' = [replicas EXCEPT ![to] = Import(@, Export(replicas[from], replicas[to].vv)).replica]
    /\ replicas' # replicas
    /\ edit' = <<>>
    /\ last' = NoImport
    /\ UNCHANGED <<ground_truth, nOps, hvars, tvars>>

ApiNext ==
    \/ \E site \in DOMAIN replicas, pos \in 0..MaxPos, n \in 1..MaxInsLen : TextInsert(site, pos, n)
    \/ \E site \in DOMAIN replicas, pos \in 0..MaxPos, len \in 1..MaxInsLen : TextDelete(site, pos, len)
    \/ \E from \in DOMAIN replicas, to \in DOMAIN replicas : Exchange(from, to)

\* replicas edited through the text handle, positions not preprocessed
SpecApi == SitesInit /\ [][ApiNext]_vars

SpecSingle == SingleInit /\ [][SingleNext]_vars

SpecSites == SitesInit /\ [][SitesNext]_vars

(***************************************************************************)
(* Properties of the replicas.                                             *)
(***************************************************************************)
\* C1 (Convergence): whenever two replicas have equal version vectors,
\* their visible text values are identical.
Convergence ==
    \A i, j \in DOMAIN replicas :
        replicas[i].vv = replicas[j].vv => Value(replicas[i].seq) = Value(replicas[j].seq)

\* C2 (Single-replica fidelity): after every operation of a single client
\* the text container's visible value equals the ordinary string that went
\* through the same operations.
SingleClientFidelity == ground_truth = Value(replicas[1].seq)

\* S1 at the scale of the model: insert(0, "ab"); insert(1, "x") shows "axb",
\* the run "ab" having been split around "x"
SingleClientFidelityWitness ==
    /\ ground_truth = <<<<1, 0>>, <<1, 2>>, <<1, 1>>>>
    /\ Len(replicas[1].seq) = 3
    /\ Len(replicas[1].log) = 2

InsertsOf(log) == {k \in 1..Len(log) : log[k].kind = "ins"}

CharsOf(c) == {<<c.site, c.ctr + k>> : k \in 0..(c.len - 1)}

PositionIn(ids, id) == CHOOSE k \in 1..Len(ids) : ids[k] = id

\* C3 (Concurrent-insert tie-break): on every replica that holds two
\* concurrent inserts made between the same origin_left and origin_right,
\* each visible character of the insert with the smaller (site, first
\* counter) stands before each visible character of the other.
TieBreak ==
    \A s \in DOMAIN replicas :
        LET log == replicas[s].log
            shown == VisibleIds(replicas[s].seq)
        IN  \A i, j \in InsertsOf(log) :
                ( /\ i # j
                  /\ log[i].ol = log[j].ol
                  /\ log[i].or = log[j].or
                  /\ Concurrent(log, log[i], log[j])
                  /\ IdLess(ChangeId(log[i]), ChangeId(log[j])) )
                => \A a \in CharsOf(log[i]) \cap Range(shown), b \in CharsOf(log[j]) \cap Range(shown) :
                       PositionIn(shown, a) < PositionIn(shown, b)

\* a change of the batch that has a dep neither covered by the log nor
\* supplied by the batch
LacksDep(rep, packet) ==
    \E c \in Range(packet) :
        \E d \in c.deps :
            /\ ~(d[2] < rep.vv[d[1]])
            /\ ~\E x \in Range(packet) : HasId(x, d)

SameState(a, b) ==
    /\ a.log = b.log
    /\ a.vv = b.vv
    /\ a.frontier = b.frontier
    /\ Value(a.seq) = Value(b.seq)

\* C4 (Causal integrity): an import of a batch holding a change with a dep
\* that is neither in the log nor in the batch reports MissingDependency,
\* and an import that reports MissingDependency leaves log, version
\* vector, frontier and visible text as they were before it.
CausalIntegrity ==
    last # NoImport =>
        /\ LacksDep(last[1].before, last[1].packet) => last[1].err = "MissingDependency"
        /\ last[1].err = "MissingDependency" => SameState(replicas[last[1].to], last[1].before)

\* an import failed although the batch held a change that could be applied
CausalIntegrityWitness ==
    /\ last # NoImport
    /\ last[1].err = "MissingDependency"
    /\ LacksDep(last[1].before, last[1].packet)
    /\ \E c \in Range(last[1].packet) : ~Known(last[1].before, c) /\ Ready(last[1].before, c)

\* C5 (Import idempotence): importing the packet just imported once more
\* leaves log, version vector and visible text as the first import left
\* them, and the log holds no change twice.
ImportIdempotence ==
    (last # NoImport /\ last[1].again) =>
        /\ SameState(replicas[last[1].to], last[1].before)
        /\ \A i, j \in 1..Len(replicas[last[1].to].log) :
               ChangeId(replicas[last[1].to].log[i]) = ChangeId(replicas[last[1].to].log[j]) => i = j

\* a packet with an insert and a delete was imported twice
ImportIdempotenceWitness ==
    /\ last # NoImport
    /\ last[1].again
    /\ last[1].err = "ok"
    /\ \E c, d \in Range(last[1].packet) : c.kind = "ins" /\ d.kind = "del"
    /\ \A c \in Range(last[1].packet) : c \in Range(replicas[last[1].to].log)

\* C14 (Causal order of the log): in every replica each change of the log
\* has all of its deps covered by changes appended before it, so import
\* never applies a change before its dependencies, whatever the order of
\* the changes inside the imported batch.
CausalLogOrder ==
    \A s \in DOMAIN replicas :
        \A k \in 1..Len(replicas[s].log) :
            \A d \in replicas[s].log[k].deps :
                \E j \in 1..(k - 1) : HasId(replicas[s].log[j], d)

\* a batch that lists a change before the change it depends on was
\* imported, and the log holds the two in causal order
CausalLogOrderWitness ==
    /\ last # NoImport
    /\ last[1].err = "ok"
    /\ Len(last[1].packet) = 2
    /\ \E d \in last[1].packet[1].deps : HasId(last[1].packet[2], d)
    /\ Len(last[1].before.log) = 0
    /\ replicas[last[1].to].log = Reverse(last[1].packet)

\* the changes of `site` that stand before position k of the log
EarlierOf(log, k, site) == {j \in 1..(k - 1) : log[j].site = site}

\* one past the last counter the first k - 1 changes of the log give `site`
NextCounter(log, k, site) ==
    IF EarlierOf(log, k, site) = {} THEN 0
    ELSE log[Max(EarlierOf(log, k, site))].ctr + log[Max(EarlierOf(log, k, site))].len

\* C15 (Per-site counters): in every replica the changes of each site
\* carry, in log order, adjoining counter spans that start at 0 (no gap,
\* no overlap, strictly increasing), and the version-vector entry of the
\* site is one past the last counter.
PerSiteCounters ==
    \A s \in DOMAIN replicas :
        LET log == replicas[s].log IN
        /\ \A k \in 1..Len(log) :
               /\ log[k].len >= 1
               /\ log[k].ctr = NextCounter(log, k, log[k].site)
        /\ \A site \in DOMAIN replicas[s].vv :
               replicas[s].vv[site] = NextCounter(log, Len(log) + 1, site)

\* a replica made a multi-character edit, took in a change of the other
\* site and then edited again
PerSiteCountersWitness ==
    \E s \in DOMAIN replicas :
        LET log == replicas[s].log IN
        /\ Len(log) = 3
        /\ log[1].site = s /\ log[1].len = 2
        /\ log[2].site # s
        /\ log[3].site = s /\ log[3].ctr = 2

\* the characters a log or packet accounts for
Covered(changes) == UNION {CharsOf(changes[k]) : k \in 1..Len(changes)}

\* the characters a version vector has seen
SeenBy(vv, id) == id[2] < vv[id[1]]

\* the sites as they stood before the last import
SitesBefore == [replicas EXCEPT ![last[1].to] = last[1].before]

\* C16 (Export completeness): what site `from` exports against the version
\* vector of site `to` accounts for exactly the characters of from's log
\* that the vector has not seen, holds changes of from's log once each and
\* lists every change after the changes it depends on; and after `to` has
\* imported such an export, its version vector is componentwise at least
\* that of `from`.
ExportCompleteness ==
    /\ \A from, to \in DOMAIN replicas :
           LET packet == SyncPacket(replicas, from, to) IN
           /\ Covered(packet) = {id \in Covered(replicas[from].log) : ~SeenBy(replicas[to].vv, id)}
           /\ Range(packet) \subseteq Range(replicas[from].log)
           /\ Cardinality(Range(packet)) = Len(packet)
           /\ \A k \in 1..Len(packet) :
                  \A d \in packet[k].deps :
                      ~SeenBy(replicas[to].vv, d) => \E j \in 1..(k - 1) : HasId(packet[j], d)
    /\ last # NoImport =>
           \A from \in DOMAIN replicas :
               last[1].packet = SyncPacket(SitesBefore, from, last[1].to) =>
                   /\ last[1].err = "ok"
                   /\ \A s \in DOMAIN replicas :
                          replicas[last[1].to].vv[s] >= replicas[from].vv[s]

\* a site that had edits of its own took in an export of two changes, the
\* second depending on the first
ExportCompletenessWitness ==
    /\ last # NoImport
    /\ last[1].err = "ok"
    /\ Len(last[1].before.log) > 0
    /\ Len(last[1].packet) = 2
    /\ \E d \in last[1].packet[2].deps : HasId(last[1].packet[1], d)
    /\ \E from \in DOMAIN replicas \ {last[1].to} :
           /\ last[1].packet = SyncPacket(SitesBefore, from, last[1].to)
           /\ replicas[last[1].to].vv # replicas[from].vv

\* the characters the insert changes of a log brought
Inserted(log) == UNION {CharsOf(log[k]) : k \in InsertsOf(log)}

\* the characters the delete changes of a log name
Targeted(log) == UNION {log[k].targets : k \in 1..Len(log)}

\* C17 (Tombstones): a local or remote delete never takes an element out
\* of the sequence, it flips it to Tombstoned: the sequence of every
\* replica holds each character its log ever inserted exactly once, the
\* targets of its deletes as tombstones; and every run, its origin_left
\* tombstoned or not, stands after its origin_left.
Tombstones ==
    \A s \in DOMAIN replicas :
        LET seq == replicas[s].seq
            ids == Ids(seq)
        IN  /\ Range(ids) = Inserted(replicas[s].log)
            /\ Cardinality(Range(ids)) = Len(ids)
            /\ \A i \in 1..Len(seq) :
                   /\ Alive(seq[i]) <=> CharsOf(seq[i]) \cap Targeted(replicas[s].log) = {}
                   /\ ~Alive(seq[i]) => CharsOf(seq[i]) \subseteq Targeted(replicas[s].log)
                   /\ seq[i].ol # NullId =>
                          PositionIn(ids, seq[i].ol) < PositionIn(ids, FirstId(seq[i]))

\* S3: x inserted by one site, y inserted after x by another, x deleted
\* concurrently by the first; all synced, every replica shows "y" behind
\* the tombstone of x
TombstonesWitness ==
    \A s \in DOMAIN replicas :
        LET seq == replicas[s].seq
            log == replicas[s].log
        IN  /\ Len(seq) = 2
            /\ ~Alive(seq[1])
            /\ Alive(seq[2])
            /\ seq[2].ol = FirstId(seq[1])
            /\ seq[2].site # seq[1].site
            /\ Value(seq) = seq[2].content
            /\ Len(log) = 3
            /\ \E i, j \in 1..3 :
                   /\ log[i].kind = "del" /\ log[i].site = seq[1].site
                   /\ log[j].kind = "ins" /\ log[j].site = seq[2].site
                   /\ Concurrent(log, log[i], log[j])

\* the summed content length of the Alive runs
RECURSIVE AliveLen(_)
AliveLen(seq) ==
    IF seq = <<>> THEN 0
    ELSE (IF Alive(Head(seq)) THEN Len(Head(seq).content) ELSE 0) + AliveLen(Tail(seq))

\* C18 (Visible length): after any local and remote inserts and deletes,
\* text_len() of every replica equals the summed content length of its
\* Alive runs and the length of get_value(); tombstoned runs count zero.
VisibleLength ==
    \A s \in DOMAIN replicas :
        /\ text_len(replicas[s]) = AliveLen(replicas[s].seq)
        /\ text_len(replicas[s]) = TextLen(replicas[s].seq)

\* a replica applied a remote delete of a character it had deleted itself
\* and still shows text
VisibleLengthWitness ==
    \E s \in DOMAIN replicas :
        LET log == replicas[s].log IN
        /\ \E i, j \in 1..Len(log) :
               /\ i < j
               /\ log[i].kind = "del" /\ log[i].site = s
               /\ log[j].kind = "del" /\ log[j].site # s
               /\ log[i].targets \cap log[j].targets # {}
        /\ text_len(replicas[s]) > 0
        /\ \E i \in 1..Len(replicas[s].seq) : ~Alive(replicas[s].seq[i])

\* C19 (Out-of-range insert): insert(pos, content) fails with OutOfBounds
\* exactly when pos is greater than the visible length, and a failed insert
\* leaves the visible text, the log and the version vector as they were
\* (no counter is consumed).
OutOfRangeInsert ==
    edit # <<>> =>
        /\ (edit[1].err = "OutOfBounds") <=> (edit[1].pos > Len(Value(edit[1].before.seq)))
        /\ edit[1].err = "OutOfBounds" =>
               /\ Value(replicas[edit[1].site].seq) = Value(edit[1].before.seq)
               /\ replicas[edit[1].site].log = edit[1].before.log
               /\ replicas[edit[1].site].vv = edit[1].before.vv

\* an insert was refused at a position that lies within the sequence when
\* its tombstones are counted, on a replica that holds remote changes
OutOfRangeInsertWitness ==
    /\ edit # <<>>
    /\ edit[1].err = "OutOfBounds"
    /\ edit[1].pos <= Len(Ids(edit[1].before.seq))
    /\ \E k \in 1..Len(edit[1].before.log) : edit[1].before.log[k].site # edit[1].site
    /\ Value(edit[1].before.seq) # <<>>

\* C6 (Commutativity of integration): two replicas that have applied the
\* same set of changes have the same visible text and the same version
\* vector, whatever the causal orders the changes arrived in.
Commutativity ==
    \A i, j \in DOMAIN replicas :
        Range(replicas[i].log) = Range(replicas[j].log) =>
            /\ Value(replicas[i].seq) = Value(replicas[j].seq)
            /\ replicas[i].vv = replicas[j].vv

(***************************************************************************)
(* string_tree.rs: the callbacks of StringTreeTrait.  A run (CustomString) *)
(* is modelled by its length; children are numbered from 0 as in the code. *)
(***************************************************************************)
RECURSIVE Sum(_)
Sum(lens) == IF lens = <<>> THEN 0 ELSE Head(lens) + Sum(Tail(lens))

\* a get_pos that looks at the end of the child first
GetPosEndFirst(index, len) ==
    IF index = len THEN "End"
    ELSE IF index = 0 THEN "Start"
    ELSE "Middle"

\* get_pos(index, child)
GetPos(index, len) ==
    IF index = 0 THEN "Start"
    ELSE IF index = len THEN "End"
    ELSE "Middle"

RECURSIVE FindPosInternalFrom(_, _, _, _)
\* the loop of find_pos_internal from child i on, and what follows it
FindPosInternalFrom(caches, i, index, last_cache) ==
    IF i >= Len(caches)
    THEN IF index > 0 THEN [status |-> "panic", i |-> 0, offset |-> 0, pos |-> "End"]   \* assert_eq!(index, 0)
         ELSE [status |-> "ok", i |-> Len(caches) - 1, offset |-> last_cache, pos |-> "End"]
    ELSE IF index <= caches[i + 1]
    THEN [status |-> "ok", i |-> i, offset |-> index, pos |-> GetPos(index, caches[i + 1])]
    ELSE FindPosInternalFrom(caches, i + 1, index - caches[i + 1], caches[i + 1])

\* find_pos_internal(node, index), node.children() having the caches given
FindPosInternal(caches, index) == FindPosInternalFrom(caches, 0, index, 0)

RECURSIVE FindPosLeafFrom(_, _, _)
FindPosLeafFrom(lens, i, index) ==
    IF i >= Len(lens)
    THEN [status |-> "ok", i |-> Len(lens) - 1, offset |-> lens[Len(lens)], pos |-> "End"]
    ELSE IF index < lens[i + 1]
    THEN [status |-> "ok", i |-> i, offset |-> index, pos |-> GetPos(index, lens[i + 1])]
    ELSE FindPosLeafFrom(lens, i + 1, index - lens[i + 1])

\* find_pos_leaf(node, index), node.children() having the lengths given
FindPosLeaf(lens, index) == FindPosLeafFrom(lens, 0, index)

(***************************************************************************)
(* Position lookups on nodes with at least one child.                      *)
(***************************************************************************)
\* the children a node may show: one to MAX_CHILDREN_NUM lengths
ChildLens == UNION {[1..n -> 0..MaxRunLen] : n \in 1..MAX_CHILDREN_NUM}

LookupInit ==
    /\ HierarchyUnused
    /\ replicas = <<>>
    /\ ground_truth = <<>>
    /\ last = <<>>
    /\ edit = <<>>
    /\ nOps = 0

\* find_pos_internal called on an internal node
LookupInternal(caches, index) ==
    /\ lookup' = <<[leaf |-> FALSE, children |-> caches, index |-> index,
                    result |-> FindPosInternal(caches, index)]>>
    /\ UNCHANGED <<tree, nTree, hvars, cvars>>

\* find_pos_leaf called on a leaf
LookupLeaf(lens, index) ==
    /\ index <= Sum(lens)
    /\ lookup' = <<[leaf |-> TRUE, children |-> lens, index |-> index,
                    result |-> FindPosLeaf(lens, index)]>>
    /\ UNCHANGED <<tree, nTree, hvars, cvars>>

LookupNext ==
    \/ \E caches \in ChildLens : \E index \in 0..(Sum(caches) + 1) : LookupInternal(caches, index)
    \/ \E lens \in ChildLens : \E index \in 0..Sum(lens) : LookupLeaf(lens, index)

SpecLookup == LookupInit /\ [][LookupNext]_vars

\* the latest lookup asked for an index within the cached length
InRange == lookup # <<>> /\ lookup[1].index <= Sum(lookup[1].children)

\* the length of the child the latest lookup answered with
Hit == lookup[1].children[lookup[1].result.i + 1]

\* the answer of the latest lookup names a child and an offset in it that
\* add up to the index
Located ==
    /\ lookup[1].result.status = "ok"
    /\ lookup[1].result.i \in 0..(Len(lookup[1].children) - 1)
    /\ Sum(SubSeq(lookup[1].children, 1, lookup[1].result.i)) + lookup[1].result.offset = lookup[1].index
    /\ lookup[1].result.offset <= Hit

\* an index beyond the cached length fails the assertion of find_pos_internal
Rejected ==
    (lookup # <<>> /\ ~lookup[1].leaf /\ lookup[1].index > Sum(lookup[1].children))
        => lookup[1].result.status = "panic"

\* C23 as stated: for an index within the cached length the lookup returns
\* (i, offset, position) with the lengths before child i plus offset equal
\* to the index, offset within child i, and position Start iff offset = 0,
\* End iff offset equals the length of child i, Middle otherwise; an index
\* beyond the cached length is rejected by find_pos_internal.
PositionLookupStated ==
    /\ InRange =>
          /\ Located
          /\ (lookup[1].result.pos = "Start") <=> (lookup[1].result.offset = 0)
          /\ (lookup[1].result.pos = "End") <=> (lookup[1].result.offset = Hit)
    /\ Rejected

\* C23, amended: as stated wherever child i is not empty; for an empty
\* child (length 0) find_pos_internal answers Start and find_pos_leaf
\* answers End.
PositionLookup ==
    /\ InRange =>
          /\ Located
          /\ Hit > 0 =>
                /\ (lookup[1].result.pos = "Start") <=> (lookup[1].result.offset = 0)
                /\ (lookup[1].result.pos = "End") <=> (lookup[1].result.offset = Hit)
          /\ Hit = 0 => lookup[1].result.pos = (IF lookup[1].leaf THEN "End" ELSE "Start")
    /\ Rejected

\* a lookup at the end of a leaf whose last run is empty was answered with
\* that run, offset 0 and End
PositionLookupWitness ==
    /\ lookup # <<>>
    /\ lookup[1].leaf
    /\ lookup[1].children = <<2, 0>>
    /\ lookup[1].index = 2
    /\ lookup[1].result = [status |-> "ok", i |-> 1, offset |-> 0, pos |-> "End"]

\* C25 (Observer lookup never fails): every subscription id listed in the
\* dispatches call_observers is working through, primary or drained from
\* pending, is a key of the observer table it was handed, so
\* observers.get_mut(sub_id).unwrap() never fails.
ObserverLookup ==
    /\ \A k \in 1..Len(dispatches) : Range(dispatches[k].sub_ids) \subseteq taken
    /\ ~(pc = "panic" /\ dispatches # <<>> /\ Head(dispatches[1].sub_ids) \notin taken)

\* C26 (Cancelling any subscription): every subscription id a container
\* holds, shallow or deep, is one unsubscribe(container, id) finds, returns
\* true for and removes.
CancelAnySubscription ==
    \A c \in DOMAIN nodes : \A id \in nodes[c].observers \cup nodes[c].deep_observers :
        UnsubscribeFound(nodes, c, id)

\* has_children / contains
HasChildren(ns, id) == id \in DOMAIN ns /\ ns[id].children # {}

Contains(ns, id) == id \in DOMAIN ns \/ IsRoot(id)

\* C27 (notify leaves the structure unchanged): a notify_without_lock that
\* does not panic leaves the set of registered nodes, every parent and
\* children link, contains, has_children and get_path_len as they were.
NotifyKeepsStructure ==
    [][(nEvents' # nEvents /\ pc' \in {"idle", "observer"}) =>
           /\ DOMAIN nodes' = DOMAIN nodes
           /\ \A id \in DOMAIN nodes : /\ nodes'[id].parent = nodes[id].parent
                                       /\ nodes'[id].children = nodes[id].children
           /\ \A id \in ContainerIDs : /\ Contains(nodes', id) = Contains(nodes, id)
                                       /\ HasChildren(nodes', id) = HasChildren(nodes, id)
                                       /\ GetPathLen(nodes', id) = GetPathLen(nodes, id)]_vars

\* C28 (Parent/child consistency): a registered node n has parent p exactly
\* when p is registered and n is in p's children; no children set names an
\* unregistered node and no registered node names an unregistered parent.
ParentChildConsistent ==
    \A n \in DOMAIN nodes :
        /\ \A p \in ContainerIDs :
               (nodes[n].parent = p) <=> (p \in DOMAIN nodes /\ n \in nodes[p].children)
        /\ nodes[n].children \subseteq DOMAIN nodes
        /\ nodes[n].parent \in DOMAIN nodes \cup {None}

\* C29 (Upward walks terminate): the parent links hold no cycle, so the
\* parent-following loops (get_path_len, get_path, should_notify,
\* notify_without_lock) end for every container id, and so does the
\* descendant traversal of remove_child.
UpwardWalksTerminate ==
    /\ pc # "hang"
    /\ \A c \in ContainerIDs : /\ GetPathLen(nodes, c).status # "hang"
                               /\ PathUp(nodes, c, Fuel).status # "hang"
                               /\ ShouldNotify(nodes, root_observers, c) # "hang"
                               /\ ~TraversalLoops(nodes, c)

\* C30 (No stale observers): whenever no dispatch is in progress the keys of
\* the observer table are the root observers and the shallow and deep
\* observers of the registered nodes.
NoStaleObservers ==
    ~calling => observers = root_observers \cup
                    UNION {nodes[c].observers \cup nodes[c].deep_observers : c \in DOMAIN nodes}

(***************************************************************************)
(* The string tree.  A leaf is [leaf, children: run lengths, cache], an    *)
(* internal node [leaf, children: nodes, cache].  The cache callbacks and  *)
(* the run callbacks are those of string_tree.rs; insert and delete_range  *)
(* follow spec.md section 4.1, on trees of at most two levels.             *)
(***************************************************************************)
MIN_CHILDREN_NUM == MAX_CHILDREN_NUM \div 2

\* Mergable for CustomString
IsMergable(a, b) == a + b < MergableBelow

Caches(children) == [k \in 1..Len(children) |-> children[k].cache]

\* an update_cache_internal that leaves the last child out
UpdateCacheInternalShort(node) ==
    [node EXCEPT !.cache = Sum(SubSeq(Caches(node.children), 1, Len(node.children) - 1))]

\* update_cache_leaf / update_cache_internal
UpdateCacheLeaf(node) == [node EXCEPT !.cache = Sum(node.children)]

UpdateCacheInternal(node) == [node EXCEPT !.cache = Sum(Caches(node.children))]

\* check_cache_leaf / check_cache_internal: the assert_eq! holds
CheckCacheLeaf(node) == node.cache = Sum(node.children)

CheckCacheInternal(node) == node.cache = Sum(Caches(node.children))

LeafNode(runs) == UpdateCacheLeaf([leaf |-> TRUE, children |-> runs, cache |-> 0])

InternalNode(children) == UpdateCacheInternal([leaf |-> FALSE, children |-> children, cache |-> 0])

RECURSIVE MergeRuns(_)
\* adjacent mergeable runs are merged
MergeRuns(runs) ==
    IF Len(runs) < 2 THEN runs
    ELSE IF IsMergable(runs[1], runs[2]) THEN MergeRuns(<<runs[1] + runs[2]>> \o SubSeq(runs, 3, Len(runs)))
    ELSE <<runs[1]>> \o MergeRuns(Tail(runs))

\* the runs of a leaf after insert(index, elem): the run at the position is
\* sliced if the position is in its middle
InsertRuns(runs, index, len) ==
    IF runs = <<>> THEN <<len>>
    ELSE LET f == FindPosLeaf(runs, index)
             j == f.i + 1
         IN  MergeRuns(
                 IF f.pos = "Start" THEN SubSeq(runs, 1, j - 1) \o <<len>> \o SubSeq(runs, j, Len(runs))
                 ELSE IF f.pos = "End" THEN SubSeq(runs, 1, j) \o <<len>> \o SubSeq(runs, j + 1, Len(runs))
                 ELSE SubSeq(runs, 1, j - 1) \o <<f.offset, len, runs[j] - f.offset>>
                          \o SubSeq(runs, j + 1, Len(runs)))

\* a full leaf is split
SplitLeaf(runs) ==
    IF Len(runs) <= MAX_CHILDREN_NUM THEN <<LeafNode(runs)>>
    ELSE <<LeafNode(SubSeq(runs, 1, Len(runs) \div 2)),
           LeafNode(SubSeq(runs, Len(runs) \div 2 + 1, Len(runs)))>>

\* insert(index, elem)
TreeInsert(root, index, len) ==
    IF root.leaf
    THEN LET ls == SplitLeaf(InsertRuns(root.children, index, len))
         IN  IF Len(ls) = 1 THEN ls[1] ELSE InternalNode(ls)
    ELSE LET f == FindPosInternal(Caches(root.children), index)
             k == f.i + 1
         IN  InternalNode(SubSeq(root.children, 1, k - 1)
                              \o SplitLeaf(InsertRuns(root.children[k].children, f.offset, len))
                              \o SubSeq(root.children, k + 1, Len(root.children)))

Clamp(x, hi) == IF x < 0 THEN 0 ELSE IF x > hi THEN hi ELSE x

RECURSIVE CutRuns(_, _, _)
\* the runs of a leaf without the characters [a, b) of the leaf: boundary
\* runs are sliced, interior runs removed
CutRuns(runs, a, b) ==
    IF runs = <<>> THEN <<>>
    ELSE LET left == Clamp(a, Head(runs))
             right == Head(runs) - Clamp(b, Head(runs))
         IN  (IF b <= 0 \/ a >= Head(runs) THEN <<Head(runs)>>
              ELSE (IF left > 0 THEN <<left>> ELSE <<>>) \o (IF right > 0 THEN <<right>> ELSE <<>>))
                 \o CutRuns(Tail(runs), a - Head(runs), b - Head(runs))

\* a leaf the range does not touch is left alone
CutLeaf(node, a, b) ==
    IF MergeRuns(CutRuns(node.children, a, b)) = node.children THEN node
    ELSE LeafNode(MergeRuns(CutRuns(node.children, a, b)))

RECURSIVE Rebalance(_)
\* an underfull leaf borrows from its left, else its right neighbour, else
\* merges with it
Rebalance(leaves) ==
    LET low == {k \in 1..Len(leaves) : Len(leaves[k].children) < MIN_CHILDREN_NUM} IN
    IF Len(leaves) <= 1 \/ low = {} THEN leaves
    ELSE LET k == CHOOSE x \in low : \A y \in low : x <= y
             cur == leaves[k].children
             l == IF k > 1 THEN leaves[k - 1].children ELSE <<>>
             r == IF k < Len(leaves) THEN leaves[k + 1].children ELSE <<>>
         IN  IF Len(l) > MIN_CHILDREN_NUM
             THEN Rebalance(SubSeq(leaves, 1, k - 2)
                                \o <<LeafNode(SubSeq(l, 1, Len(l) - 1)), LeafNode(<<l[Len(l)]>> \o cur)>>
                                \o SubSeq(leaves, k + 1, Len(leaves)))
             ELSE IF Len(r) > MIN_CHILDREN_NUM
             THEN Rebalance(SubSeq(leaves, 1, k - 1)
                                \o <<LeafNode(cur \o <<r[1]>>), LeafNode(Tail(r))>>
                                \o SubSeq(leaves, k + 2, Len(leaves)))
             ELSE IF k > 1
             THEN Rebalance(SubSeq(leaves, 1, k - 2) \o <<LeafNode(l \o cur)>>
                                \o SubSeq(leaves, k + 1, Len(leaves)))
             ELSE Rebalance(<<LeafNode(cur \o r)>> \o SubSeq(leaves, k + 2, Len(leaves)))

\* delete_range(from, to)
DeleteRange(root, from, to) ==
    IF root.leaf THEN CutLeaf(root, from, to)
    ELSE LET start(k) == Sum(SubSeq(Caches(root.children), 1, k - 1))
             cut == [k \in 1..Len(root.children) |->
                        CutLeaf(root.children[k], from - start(k), to - start(k))]
             leaves == Rebalance(cut)
         IN  IF Len(leaves) = 1 THEN leaves[1] ELSE InternalNode(leaves)

(***************************************************************************)
(* Runs of the tree: strings of length 1 and BigRun are inserted, ranges   *)
(* are deleted.  tree = <<root, root before the latest mutation, its name>>*)
(***************************************************************************)
\* the indices a run of the tree driver uses
Points(total) == {0, 1, total \div 2, total} \cap 0..total

TreeInit ==
    /\ HNew
    /\ debug_assertions = TRUE
    /\ nodes = <<>>
    /\ cap = [subs |-> 0, events |-> 0, struct |-> 0]
    /\ replicas = <<>>
    /\ ground_truth = <<>>
    /\ last = <<>>
    /\ edit = <<>>
    /\ nOps = 0
    /\ tree = <<LeafNode(<<>>), LeafNode(<<>>), "new">>
    /\ lookup = <<>>
    /\ nTree = 0

InsertStep(index, len) ==
    /\ nTree < MaxTreeOps
    /\ index \in Points(tree[1].cache)
    /\ Len(TreeInsert(tree[1], index, len).children) <= MAX_CHILDREN_NUM
    /\ tree' = <<TreeInsert(tree[1], index, len), tree[1], "insert">>
    /\ nTree' = nTree + 1
    /\ UNCHANGED <<lookup, hvars, cvars>>

DeleteStep(from, to) ==
    /\ nTree < MaxTreeOps
    /\ {from, to} \subseteq Points(tree[1].cache)
    /\ from < to
    /\ tree' = <<DeleteRange(tree[1], from, to), tree[1], "delete_range">>
    /\ nTree' = nTree + 1
    /\ UNCHANGED <<lookup, hvars, cvars>>

TreeNext ==
    \/ \E index \in 0..(MaxTreeOps * BigRun), len \in {1, BigRun} : InsertStep(index, len)
    \/ \E from, to \in 0..(MaxTreeOps * BigRun) : DeleteStep(from, to)

SpecTree == TreeInit /\ [][TreeNext]_vars

\* all runs below a node
AllRuns(node) ==
    IF node.leaf THEN Sum(node.children)
    ELSE Sum([k \in 1..Len(node.children) |-> Sum(node.children[k].children)])

====
